---- MODULE Spec2Model ----
(***************************************************************************)
(* Model of the crypto price reminder bot (main.py): the reminders table,  *)
(* the command handlers set_reminder / remove_reminder, and the background *)
(* thread check_reminders that scans the table once a minute.              *)
(*                                                                         *)
(* Time is in seconds; second 0 is an instant that every modelled cron     *)
(* schedule matches (a full hour).  The created_at column is written by    *)
(* SQLite's DEFAULT and never read by any statement of main.py, so rows    *)
(* carry the four columns that get_all_reminders selects.                  *)
(***************************************************************************)
EXTENDS Integers, Sequences, FiniteSets, TLC

\* ---------------------------------------------------------------- bounds
MaxCmds == 2

\* ------------------------------------------------------ program constants
SLEEP_SECONDS == 60
DUE_THRESHOLD == -60
ARGS_EXPECTED == 3
MAXSPLIT == 2

NULL == -1

\* ------------------------------------------------------------ input sets
ChatIds == {123, 456}
SymbolTexts == {"btc", "ETH"}
MinuteFields == {"*", "*/5", "abc"}

\* the sampled wall-clock readings: T, T+1min, T+5min59s
TimePoints == {0, 60, 359}

\* message.text as its whitespace-separated tokens
CronTexts ==
    {<<f, "*", "*", "*", "*">> : f \in MinuteFields} \cup {<<"*/5", "*", "*">>}

SetTexts ==
    {<<"/setreminder">>, <<"/setreminder", "btc">>}
    \cup {<<"/setreminder", s>> \o c : s \in SymbolTexts, c \in CronTexts}

RemoveTexts ==
    {<<"/removereminder">>} \cup {<<"/removereminder", s>> : s \in SymbolTexts}

ListTexts == {<<"/myreminders">>}

VARIABLES
    clock,      \* wall clock, seconds
    store,      \* the reminders table, rows in rowid order
    outbox,     \* the latest message handed to the Telegram API
    cmds,       \* number of commands handled so far
    pc,         \* position of the checker thread
    now,        \* check_reminders: now
    reminders,  \* check_reminders: reminders (the snapshot)
    idx,        \* check_reminders: position of the for loop in reminders
    sleepFrom,  \* clock reading at which time.sleep(60) was entered
    testCall    \* outcome of a call check_reminders(single_check=True)

vars == <<clock, store, outbox, cmds, pc, now, reminders, idx, sleepFrom, testCall>>

schedVars == <<pc, now, reminders, idx, sleepFrom>>

\* ------------------------------------------------------------- helpers
\* str.upper() on the symbols of the input set
upper(s) ==
    CASE s = "btc" -> "BTC"
      [] OTHER -> s

\* str.split(None, maxsplit): at most maxsplit+1 parts, the last one being
\* the rest of the text (kept here as its tokens)
split(text, maxsplit) ==
    IF Len(text) <= maxsplit
      THEN [i \in 1..Len(text) |-> <<text[i]>>]
      ELSE [i \in 1..(maxsplit + 1) |->
              IF i <= maxsplit THEN <<text[i]>> ELSE SubSeq(text, i, Len(text))]

\* seconds between two matches of a minute field; 0 when it does not parse
FieldPeriod(f) ==
    CASE f = "*" -> 60
      [] f = "*/5" -> 300
      [] OTHER -> 0

\* croniter.is_valid: five fields, each of them parseable
is_valid(expr) ==
    /\ Len(expr) = 5
    /\ FieldPeriod(expr[1]) > 0
    /\ \A i \in 2..5 : expr[i] = "*"

Period(expr) == FieldPeriod(expr[1])

\* croniter(expr, t).get_prev(): the latest match strictly before t
get_prev(expr, t) == ((t - 1) \div Period(expr)) * Period(expr)

\* croniter(expr, t).get_next(): the earliest match strictly after t
get_next(expr, t) == ((t \div Period(expr)) + 1) * Period(expr)

\* bot.send_message / bot.reply_to: the message goes out and is the latest
Post(box, m) == m

\* a message of the scheduler (bot.send_message) or the reply to a command
\* (bot.reply_to, which carries the message it answers in re)
Msg(to, kind, symbol, cycle, re) ==
    [to |-> to, kind |-> kind, symbol |-> symbol, cycle |-> cycle, re |-> re]

NoMsg == Msg(0, "none", "", NULL, <<>>)

\* the reply of list_reminders: the lines of reminder_list as (symbol, cron_expr)
ListMsg(to, kind, items, re) ==
    [to |-> to, kind |-> kind, symbol |-> "", cycle |-> NULL, re |-> re,
     items |-> items]

Row(symbol, chat_id, cron_expr, last_run) ==
    [symbol |-> symbol, chat_id |-> chat_id, cron_expr |-> cron_expr,
     last_run |-> last_run]

\* ------------------------------------------------------ the reminders table
\* a plain INSERT: the conflicting row stays
replace_into_keep(rows, symbol, chat_id, cron_expr) ==
    rows \o <<Row(symbol, chat_id, cron_expr, NULL)>>

\* REPLACE INTO reminders (symbol, chat_id, cron_expr): the row that conflicts
\* on the primary key is deleted, the new row gets a fresh rowid and the
\* column last_run, not named in the statement, its default NULL
replace_into(rows, symbol, chat_id, cron_expr) ==
    SelectSeq(rows, LAMBDA r : r.symbol # symbol)
        \o <<Row(symbol, chat_id, cron_expr, NULL)>>

\* DELETE without the owner test
delete_where_any_owner(rows, chat_id, symbol) ==
    SelectSeq(rows, LAMBDA r : r.symbol # symbol)

\* DELETE FROM reminders WHERE chat_id = ? AND symbol = ?
delete_where(rows, chat_id, symbol) ==
    SelectSeq(rows, LAMBDA r : ~(r.chat_id = chat_id /\ r.symbol = symbol))

\* SELECT without the owner test
select_all_owners(rows, chat_id) ==
    [i \in DOMAIN rows |-> <<rows[i].symbol, rows[i].cron_expr>>]

\* SELECT symbol, cron_expr FROM reminders WHERE chat_id = ?
select_by_chat(rows, chat_id) ==
    LET mine == SelectSeq(rows, LAMBDA r : r.chat_id = chat_id)
    IN [i \in DOMAIN mine |-> <<mine[i].symbol, mine[i].cron_expr>>]

\* an upsert: a symbol without a row gets one
update_last_run_upsert(rows, symbol, t) ==
    IF \E i \in DOMAIN rows : rows[i].symbol = symbol
      THEN [i \in DOMAIN rows |->
              IF rows[i].symbol = symbol THEN [rows[i] EXCEPT !.last_run = t]
              ELSE rows[i]]
      ELSE Append(rows, Row(symbol, 123, <<"*", "*", "*", "*", "*">>, t))

\* UPDATE reminders SET last_run = ? WHERE symbol = ?
update_last_run(rows, symbol, t) ==
    [i \in DOMAIN rows |->
        IF rows[i].symbol = symbol THEN [rows[i] EXCEPT !.last_run = t]
        ELSE rows[i]]

\* ------------------------------------------------------------ due detection
\* line 101: the instant the cycle compares now with
next_run(last_run, cron_expr, t) ==
    IF last_run # NULL THEN get_prev(cron_expr, t) ELSE get_next(cron_expr, t)

\* the window on the wrong side: due only later than a minute after the match
is_due_late(last_run, cron_expr, t) ==
    \/ last_run = NULL
    \/ (t - next_run(last_run, cron_expr, t)) > 60

\* the never-fired shortcut forgotten
is_due_no_first_run(last_run, cron_expr, t) ==
    (t - next_run(last_run, cron_expr, t)) > DUE_THRESHOLD

\* line 103: the condition under which the cycle delivers
is_due(last_run, cron_expr, t) ==
    \/ last_run = NULL
    \/ (t - next_run(last_run, cron_expr, t)) > DUE_THRESHOLD

\* ------------------------------------------------------------------- Init
\* __main__: init_db() leaves an empty table, then the checker thread starts
Init ==
    /\ clock = 0
    /\ store = <<>>
    /\ outbox = NoMsg
    /\ cmds = 0
    /\ pc = "top"
    /\ now = 0
    /\ reminders = <<>>
    /\ idx = 1
    /\ sleepFrom = 0
    /\ testCall = "none"

\* ------------------------------------------------------------------ clock
Tick ==
    /\ \E t \in TimePoints : t > clock /\ clock' = t
    /\ UNCHANGED <<store, outbox, cmds, schedVars, testCall>>

\* ------------------------------------------------------- command handlers
\* the cron expression is not checked
validate_args_only(args) ==
    IF Len(args) # ARGS_EXPECTED THEN "bad_args" ELSE "ok"

\* lines 154-162: the two ValueErrors of set_reminder, "ok" when none is raised
validate(args) ==
    IF Len(args) # ARGS_EXPECTED THEN "bad_args"
    ELSE IF ~is_valid(args[3]) THEN "bad_cron"
    ELSE "ok"

\* /setreminder SYMBOL CRON
set_reminder(chat_id, text, priceOk) ==
    /\ cmds < MaxCmds
    /\ cmds' = cmds + 1
    /\ LET args == split(text, MAXSPLIT)
           verdict == validate(args)
       IN IF verdict # "ok"
            THEN \* except ValueError: the reason goes back to the sender
                 /\ outbox' = Post(outbox, Msg(chat_id, verdict, "", NULL, text))
                 /\ store' = store
            ELSE LET symbol == upper(args[2][1])
                     cron_expr == args[3]
                 IN /\ store' = replace_into(store, symbol, chat_id, cron_expr)
                    /\ outbox' = Post(Post(outbox, Msg(chat_id, "set_ok", symbol, NULL, text)),
                                      Msg(chat_id,
                                          IF priceOk THEN "price_test" ELSE "price_warning",
                                          symbol, NULL, text))
    /\ UNCHANGED <<clock, schedVars, testCall>>

\* /removereminder SYMBOL
remove_reminder(chat_id, text) ==
    /\ cmds < MaxCmds
    /\ cmds' = cmds + 1
    /\ IF Len(text) < 2
         THEN /\ outbox' = Post(outbox, Msg(chat_id, "no_symbol", "", NULL, text))
              /\ store' = store
         ELSE LET symbol == upper(text[2])
                  after == delete_where(store, chat_id, symbol)
                  rowcount == Len(store) - Len(after)
              IN /\ store' = after
                 /\ outbox' = Post(outbox,
                                   Msg(chat_id,
                                       IF rowcount > 0 THEN "removed" ELSE "not_found",
                                       symbol, NULL, text))
    /\ UNCHANGED <<clock, schedVars, testCall>>

\* /myreminders
list_reminders(chat_id, text) ==
    /\ cmds < MaxCmds
    /\ cmds' = cmds + 1
    /\ LET found == select_by_chat(store, chat_id)
       IN outbox' = Post(outbox,
                         IF found = <<>>
                           THEN ListMsg(chat_id, "no_reminders", <<>>, text)
                           ELSE ListMsg(chat_id, "list", found, text))
    /\ UNCHANGED <<clock, store, schedVars, testCall>>

\* ---------------------------------------------------- the checker thread
\* lines 95-96: read the clock and the whole table; get_all_reminders is
\* outside the try, an sqlite error there ends the thread
CycleStart(readOk) ==
    /\ pc = "top"
    /\ IF readOk
         THEN /\ now' = clock
              /\ reminders' = store
              /\ idx' = 1
              /\ pc' = "loop"
         ELSE /\ pc' = "dead"
              /\ UNCHANGED <<now, reminders, idx>>
    /\ UNCHANGED <<clock, store, outbox, cmds, sleepFrom, testCall>>

\* the for loop takes the next row of the snapshot
next_iteration ==
    /\ idx' = idx + 1
    /\ pc' = "loop"

\* no handler around the loop body: the exception ends the thread
on_exception_uncaught ==
    /\ idx' = idx
    /\ pc' = "dead"

\* lines 106-107: except Exception prints the error, the loop goes on
on_exception == next_iteration

\* lines 99-104: evaluate one reminder and, if due, send_price_reminder
ProcessReminder(priceOk, sendOk) ==
    /\ pc = "loop"
    /\ idx <= Len(reminders)
    /\ LET r == reminders[idx]
       IN IF ~is_valid(r.cron_expr)
            THEN \* croniter(...) raises, caught at line 106
                 /\ on_exception
                 /\ outbox' = outbox
            ELSE IF ~is_due(r.last_run, r.cron_expr, now)
                   THEN /\ next_iteration
                        /\ outbox' = outbox
                   ELSE IF sendOk
                          THEN /\ outbox' = Post(outbox,
                                                 Msg(r.chat_id,
                                                     IF priceOk THEN "alert" ELSE "alert_error",
                                                     r.symbol, now, <<>>))
                               /\ pc' = "update"
                               /\ idx' = idx
                          ELSE \* bot.send_message raises, caught at line 106
                               /\ on_exception
                               /\ outbox' = outbox
    /\ UNCHANGED <<clock, store, cmds, now, reminders, sleepFrom, testCall>>

\* line 105: update_reminder_last_run(symbol), stamped with datetime.now()
UpdateLastRun(writeOk) ==
    /\ pc = "update"
    /\ IF writeOk
         THEN /\ store' = update_last_run(store, reminders[idx].symbol, clock)
              /\ next_iteration
         ELSE \* sqlite3 raises, caught at line 106
              /\ store' = store
              /\ on_exception
    /\ UNCHANGED <<clock, outbox, cmds, now, reminders, sleepFrom, testCall>>

\* line 109: the for loop is exhausted, time.sleep(60) begins; the locals of
\* the finished cycle are dead (lines 95-96 overwrite them before any use)
CycleEnd ==
    /\ pc = "loop"
    /\ idx > Len(reminders)
    /\ pc' = "sleep"
    /\ sleepFrom' = clock
    /\ now' = 0
    /\ reminders' = <<>>
    /\ idx' = 1
    /\ UNCHANGED <<clock, store, outbox, cmds, testCall>>

\* time.sleep(60) returns, back to the head of while True
Wake ==
    /\ pc = "sleep"
    /\ clock >= sleepFrom + SLEEP_SECONDS
    /\ pc' = "top"
    /\ sleepFrom' = 0
    /\ UNCHANGED <<clock, store, outbox, cmds, now, reminders, idx, testCall>>

\* the keyword arguments def check_reminders() accepts (line 92)
check_reminders_params == {}

\* test_main.py line 198: check_reminders(single_check=True); a keyword the
\* signature does not have makes the call raise TypeError before the body runs
CallSingleShot ==
    /\ testCall = "none"
    /\ testCall' = IF "single_check" \in check_reminders_params
                     THEN "returned" ELSE "TypeError"
    /\ UNCHANGED <<clock, store, outbox, cmds, schedVars>>

Next ==
    \/ Tick
    \/ \E c \in ChatIds, t \in SetTexts, p \in BOOLEAN : set_reminder(c, t, p)
    \/ \E c \in ChatIds, t \in RemoveTexts : remove_reminder(c, t)
    \/ \E c \in ChatIds, t \in ListTexts : list_reminders(c, t)
    \/ \E ok \in BOOLEAN : CycleStart(ok)
    \/ \E p \in BOOLEAN, s \in BOOLEAN : ProcessReminder(p, s)
    \/ \E ok \in BOOLEAN : UpdateLastRun(ok)
    \/ CycleEnd
    \/ Wake

Spec == Init /\ [][Next]_vars

\* ------------------------------------------------- process restart
\* lines 27-39: DROP TABLE IF EXISTS reminders, then CREATE TABLE: whatever
\* the database file held, the table is empty afterwards
init_db(rows) == <<>>

\* the process is stopped and started again: __main__ calls init_db() and
\* starts a new checker thread at the head of its loop; the messages already
\* delivered stay delivered and the wall clock goes on
Restart ==
    /\ store' = init_db(store)
    /\ pc' = "top"
    /\ now' = 0
    /\ reminders' = <<>>
    /\ idx' = 1
    /\ sleepFrom' = 0
    /\ UNCHANGED <<clock, outbox, cmds, testCall>>

NextRestart ==
    \/ Next
    \/ Restart

SpecRestart == Init /\ [][NextRestart]_vars

\* ------------------------------------------------- the test harness
\* test_main.py imports main: the __main__ block does not run, so there is no
\* checker thread; the fixture test_db has called init_db()
InitTest ==
    /\ clock = 0
    /\ store = <<>>
    /\ outbox = NoMsg
    /\ cmds = 0
    /\ pc = "unstarted"
    /\ now = 0
    /\ reminders = <<>>
    /\ idx = 1
    /\ sleepFrom = 0
    /\ testCall = "none"

NextTest ==
    \/ Tick
    \/ \E c \in ChatIds, t \in SetTexts, p \in BOOLEAN : set_reminder(c, t, p)
    \/ \E c \in ChatIds, t \in RemoveTexts : remove_reminder(c, t)
    \/ \E c \in ChatIds, t \in ListTexts : list_reminders(c, t)
    \/ CallSingleShot

SpecTest == InitTest /\ [][NextTest]_vars

TypeOK ==
    /\ clock \in TimePoints
    /\ cmds \in 0..MaxCmds
    /\ pc \in {"top", "loop", "update", "sleep", "dead", "unstarted"}
    /\ outbox.kind \in {"none", "bad_args", "bad_cron", "set_ok", "price_test",
                       "price_warning", "no_symbol", "removed", "not_found",
                       "alert", "alert_error", "list", "no_reminders"}
    /\ testCall \in {"none", "TypeError", "returned"}

\* ================================================================ claims
AlertKinds == {"alert", "alert_error"}

\* the most recent scheduled instant at or before t
last_instant(expr, t) == (t \div Period(expr)) * Period(expr)

\* the checker is at a row of its snapshot (evaluating it or about to mark it)
AtRow == pc \in {"loop", "update"} /\ idx <= Len(reminders)

\* the step in which send_price_reminder delivered for the row at idx
Delivered == pc = "loop" /\ pc' = "update"

\* the message send_price_reminder sends for row r in the running cycle
AlertFor(r, priceOk) ==
    Msg(r.chat_id, IF priceOk THEN "alert" ELSE "alert_error", r.symbol, now, <<>>)

\* the rows of a table that belong to a symbol
RowsOf(rows, symbol) == {i \in DOMAIN rows : rows[i].symbol = symbol}

\* C1: between two registrations of a symbol the checker sends at most one
\* notification per scheduled instant: a delivery for a row that has fired
\* before, following a notification of the same reminder, belongs to a later
\* scheduled instant than that notification
C1_AtMostOncePerInstant ==
    [][(/\ Delivered
        /\ reminders[idx].last_run # NULL
        /\ outbox.kind \in AlertKinds
        /\ outbox.symbol = reminders[idx].symbol
        /\ outbox.to = reminders[idx].chat_id)
       => last_instant(reminders[idx].cron_expr, outbox.cycle)
            < last_instant(reminders[idx].cron_expr, now)]_vars

\* C2: a row that has fired before, evaluated 60 seconds or more after the
\* most recent scheduled instant, is passed over: nothing is sent and the
\* table is left as it is
C2_NotDueAfterWindow ==
    [][(/\ pc = "loop"
        /\ idx <= Len(reminders)
        /\ (pc' # pc \/ idx' # idx)
        /\ reminders[idx].last_run # NULL
        /\ is_valid(reminders[idx].cron_expr)
        /\ now - last_instant(reminders[idx].cron_expr, now) >= 60)
       => (pc' = "loop" /\ outbox' = outbox /\ store' = store)]_vars

\* a row that has fired before and is evaluated within 59 seconds of a match
InWindow(r) ==
    /\ r.last_run # NULL
    /\ is_valid(r.cron_expr)
    /\ now - last_instant(r.cron_expr, now) \in 0..59

\* C3: a row that has fired before, evaluated at a scheduled instant or up to
\* 59 seconds after it, fires: with a working notifier the owner gets the
\* notification, and the write that follows stamps the row's last_run
C3_DueWithinWindow ==
    [][(AtRow /\ InWindow(reminders[idx]))
       => /\ \A p \in BOOLEAN :
               ProcessReminder(p, TRUE)
                 => (pc' = "update" /\ outbox' = AlertFor(reminders[idx], p))
          /\ UpdateLastRun(TRUE)
               => \A i \in RowsOf(store', reminders[idx].symbol) :
                     store'[i].last_run = clock]_vars

\* C3 witness: a row fired 59 seconds after a match, notified and stamped
C3_Witness ==
    /\ pc = "loop"
    /\ idx > 1
    /\ idx - 1 <= Len(reminders)
    /\ LET r == reminders[idx - 1]
       IN /\ r.last_run # NULL
          /\ now - last_instant(r.cron_expr, now) = 59
          /\ outbox = AlertFor(r, TRUE)
          /\ \E i \in RowsOf(store, r.symbol) :
                store[i].last_run >= now /\ store[i].last_run > r.last_run

\* C4: a row with a valid schedule that never fired is due whatever now is:
\* with a working notifier its owner gets the notification
C4_NeverFiredAlwaysDue ==
    [][(/\ pc = "loop"
        /\ idx <= Len(reminders)
        /\ reminders[idx].last_run = NULL
        /\ is_valid(reminders[idx].cron_expr))
       => \A p \in BOOLEAN :
             ProcessReminder(p, TRUE)
               => (pc' = "update" /\ outbox' = AlertFor(reminders[idx], p))]_vars

\* C4 witness: a never-fired row notified in a cycle that is off its schedule
C4_Witness ==
    /\ pc = "update"
    /\ reminders[idx].last_run = NULL
    /\ now % Period(reminders[idx].cron_expr) # 0
    /\ outbox = AlertFor(reminders[idx], TRUE)

\* no two rows of the table share a symbol
UniqueSymbols(rows) ==
    \A i, j \in DOMAIN rows : rows[i].symbol = rows[j].symbol => i = j

\* C5: the table never holds two rows for one symbol, and a registration that
\* passes validation leaves exactly one row for its symbol, carrying the new
\* owner and the new schedule
C5_OneRowPerSymbol ==
    [][/\ UniqueSymbols(store')
       /\ (cmds' = cmds + 1 /\ outbox'.kind \in {"price_test", "price_warning"})
            => LET t == outbox'.re
               IN /\ Cardinality(RowsOf(store', upper(t[2]))) = 1
                  /\ \A i \in RowsOf(store', upper(t[2])) :
                        /\ store'[i].chat_id = outbox'.to
                        /\ store'[i].cron_expr = SubSeq(t, 3, Len(t))]_vars

\* C5 witness: the checker still holds the old row of a symbol (other owner,
\* other schedule) while the table holds the single row that replaced it
C5_Witness ==
    /\ pc = "update"
    /\ outbox.kind \in {"price_test", "price_warning"}
    /\ outbox.symbol = reminders[idx].symbol
    /\ Cardinality(RowsOf(store, reminders[idx].symbol)) = 1
    /\ \A i \in RowsOf(store, reminders[idx].symbol) :
          /\ store[i].chat_id = outbox.to
          /\ store[i].chat_id # reminders[idx].chat_id
          /\ store[i].cron_expr # reminders[idx].cron_expr

\* C6: the answer to a remove command is "removed", with the row gone and the
\* other rows kept, exactly when the symbol has a row owned by the sender;
\* otherwise the answer is "not found" and the table is untouched
C6_RemoveOwnRowOnly ==
    [][(cmds' = cmds + 1 /\ outbox'.re \in RemoveTexts /\ Len(outbox'.re) >= 2)
       => LET c == outbox'.to
              symbol == upper(outbox'.re[2])
          IN IF \E i \in RowsOf(store, symbol) : store[i].chat_id = c
               THEN /\ outbox'.kind = "removed"
                    /\ outbox'.symbol = symbol
                    /\ RowsOf(store', symbol) = {}
                    /\ store' = SelectSeq(store, LAMBDA r : r.symbol # symbol)
               ELSE /\ outbox'.kind = "not_found"
                    /\ outbox'.symbol = symbol
                    /\ store' = store]_vars

\* C6 witness: "not found" was answered to a sender while another owner's row
\* for that symbol is in the table
C6_Witness ==
    /\ outbox.kind = "not_found"
    /\ \E i \in RowsOf(store, outbox.symbol) : store[i].chat_id # outbox.to

\* C7: a due reminder whose price fetch fails gets the error notification and
\* its last_run stamped, and a delivery that follows an error notification of
\* the same reminder belongs to a later scheduled instant
C7_PriceFailureNoRetry ==
    [][/\ (AtRow /\ ProcessReminder(FALSE, TRUE) /\ Delivered)
            => outbox' = AlertFor(reminders[idx], FALSE)
       /\ (AtRow /\ UpdateLastRun(TRUE) /\ outbox = AlertFor(reminders[idx], FALSE))
            => \A i \in RowsOf(store', reminders[idx].symbol) :
                  store'[i].last_run = clock
       /\ (/\ Delivered
           /\ outbox.kind = "alert_error"
           /\ outbox.symbol = reminders[idx].symbol
           /\ outbox.to = reminders[idx].chat_id)
            => last_instant(reminders[idx].cron_expr, outbox.cycle)
                 < last_instant(reminders[idx].cron_expr, now)]_vars

\* C8: whatever happens at one row of the snapshot, the checker stays in the
\* cycle and goes on with that row or the next one, and the cycle ends only
\* past the last row
C8_ErrorIsolation ==
    [][/\ (AtRow /\ (pc' # pc \/ idx' # idx))
            => /\ pc' \in {"loop", "update"}
               /\ reminders' = reminders
               /\ now' = now
               /\ idx' = IF pc' = "update" THEN idx ELSE idx + 1
       /\ (pc \in {"loop", "update"} /\ pc' \notin {"loop", "update"})
            => (pc' = "sleep" /\ idx = Len(reminders) + 1)]_vars

\* C8 witness: the first row of the snapshot was due and is still unmarked in
\* the unchanged table (its delivery or its write raised), and the second row
\* has been notified in the same cycle
C8_Witness ==
    /\ pc = "update"
    /\ idx = 2
    /\ store = reminders
    /\ reminders[1].last_run = NULL
    /\ outbox = AlertFor(reminders[2], TRUE)

\* C9: a call check_reminders(single_check=True) performs one cycle and returns
C9_SingleShotReturns == testCall # "none" => testCall = "returned"

\* the expressions of the input set that are cron expressions
WellFormedCrons == {<<"*", "*", "*", "*", "*">>, <<"*/5", "*", "*", "*", "*">>}

\* C10: a registration command with fewer than three arguments or with an
\* expression that is not a cron expression is answered with the reason and
\* leaves the table as it is; every row of the table carries a cron expression
C10_InvalidRejected ==
    [][/\ \A i \in DOMAIN store' : store'[i].cron_expr \in WellFormedCrons
       /\ (/\ cmds' = cmds + 1
           /\ outbox'.re \in SetTexts
           /\ (Len(outbox'.re) < 3
                 \/ SubSeq(outbox'.re, 3, Len(outbox'.re)) \notin WellFormedCrons))
            => /\ store' = store
               /\ outbox'.kind = IF Len(outbox'.re) < 3 THEN "bad_args" ELSE "bad_cron"]_vars

\* C10 witness: a registration was refused for its expression while the table
\* holds an earlier, valid reminder
C10_Witness ==
    /\ outbox.kind = "bad_cron"
    /\ Len(store) = 1

\* C11: while a symbol keeps a row, a last_run that is set is never followed by
\* an earlier one nor by none, whichever operation acts on the row
C11_LastRunMonotonic ==
    [][\A i \in DOMAIN store :
         store[i].last_run # NULL
           => \A j \in RowsOf(store', store[i].symbol) :
                 /\ store'[j].last_run # NULL
                 /\ store'[j].last_run >= store[i].last_run]_vars

\* C12: the answer to a list command carries exactly the (symbol, schedule)
\* pairs of the rows owned by the sender, none of another owner, and is the
\* plain "no reminders" answer when the sender owns no row; the table is left
\* as it is
C12_ListOwnRows ==
    [][(cmds' = cmds + 1 /\ outbox'.re \in ListTexts)
       => LET own == {<<store[i].symbol, store[i].cron_expr>> :
                        i \in {j \in DOMAIN store : store[j].chat_id = outbox'.to}}
          IN /\ store' = store
             /\ outbox'.kind = IF own = {} THEN "no_reminders" ELSE "list"
             /\ {outbox'.items[k] : k \in DOMAIN outbox'.items} = own
             /\ Len(outbox'.items) = Cardinality(own)]_vars

\* C12 witness: a sender that registered one reminder was listed exactly that
\* entry
C12_Witness ==
    /\ outbox.kind = "list"
    /\ Len(outbox.items) = 1
    /\ \E i \in DOMAIN store :
          store[i].chat_id = outbox.to /\ outbox.items[1] = <<store[i].symbol, store[i].cron_expr>>

\* C13: a read of the table that fails at the head of a cycle abandons that
\* cycle only: the checker goes to its sleep (or into the loop when the read
\* worked), it never ends
C13_ReadFailureSurvives ==
    [][(pc = "top" /\ pc' # "top") => pc' \in {"loop", "sleep"}]_vars

\* C14: the message of a firing is delivered after the last_run write of that
\* firing: at the delivery the row of the symbol already carries a last_run
\* written in the running cycle
C14_WriteBeforeDelivery ==
    [][Delivered
       => \A i \in RowsOf(store, reminders[idx].symbol) :
             store[i].last_run # NULL /\ store[i].last_run >= now]_vars

\* the row at idx has a valid schedule and is evaluated as due
DueAtIdx ==
    /\ pc = "loop"
    /\ idx <= Len(reminders)
    /\ is_valid(reminders[idx].cron_expr)
    /\ is_due(reminders[idx].last_run, reminders[idx].cron_expr, now)

\* C15: when the checker leaves a row it evaluated as due because the notifier
\* raised, the row of the symbol, if it still exists, carries a last_run
\* written in the running cycle
C15_MarkedDespiteDeliveryFailure ==
    [][(DueAtIdx /\ pc' = "loop" /\ idx' = idx + 1)
       => \A i \in RowsOf(store', reminders[idx].symbol) :
             store'[i].last_run # NULL /\ store'[i].last_run >= now]_vars

\* C16: the last_run write for a symbol whose row is gone (removed after the
\* cycle read its snapshot) raises nothing and leaves the table as it is: the
\* checker goes on to the next row and no row is created for the symbol
C16_UpdateOfRemovedRow ==
    [][(/\ pc = "update"
        /\ RowsOf(store, reminders[idx].symbol) = {}
        /\ pc' # pc)
       => /\ store' = store
          /\ pc' = "loop"
          /\ idx' = idx + 1]_vars

\* C16 witness: the checker has delivered for a row of its snapshot and holds
\* the write of its last_run, the owner's removal of that row having been
\* answered in between
C16_Witness ==
    /\ pc = "update"
    /\ outbox.kind = "removed"
    /\ outbox.symbol = reminders[idx].symbol
    /\ outbox.to = reminders[idx].chat_id
    /\ RowsOf(store, reminders[idx].symbol) = {}

\* C17: every cycle reads the whole table afresh: with a never-fired row in
\* the table, the step that leaves the head of the loop enters the for loop
\* with the table as it is at that moment as its snapshot, so the registration
\* is observed by that cycle and its row is still to be evaluated in it
C17_FreshReadEachCycle ==
    [][(/\ pc = "top"
        /\ pc' # "top"
        /\ \E i \in DOMAIN store : store[i].last_run = NULL)
       => /\ pc' = "loop"
          /\ idx' = 1
          /\ reminders' = store]_vars

\* C18: a row leaves the table only by a removal answered to its owner; a
\* step after which a symbol of the table has no row any more is that removal
\* (a re-registration keeps a row for the symbol), process restarts and
\* checker cycles included
C18_RowsLeaveOnlyByRemoval ==
    [][\A i \in DOMAIN store :
          RowsOf(store', store[i].symbol) = {}
            => /\ cmds' = cmds + 1
               /\ outbox'.kind = "removed"
               /\ outbox'.to = store[i].chat_id
               /\ outbox'.symbol = store[i].symbol]_vars

\* C19: whenever the checker writes last_run, every row it marks is owned by
\* the chat the notification of that firing was sent to (the owner in the
\* snapshot row the checker delivered for)
C19_MarkedRowWasNotified ==
    [][(pc = "update" /\ pc' = "loop")
       => \A i \in RowsOf(store, reminders[idx].symbol) :
             store'[i].last_run # store[i].last_run
               => store[i].chat_id = reminders[idx].chat_id]_vars

\* the symbols that have a row in a table
SymbolsOf(rows) == {rows[i].symbol : i \in DOMAIN rows}

\* C20: a removed symbol that is not registered again is notified by no cycle
\* started after the removal: a removal leaves no row for the symbol, only a
\* registration gives a symbol without a row a row, a cycle takes its snapshot
\* from the table at its start and keeps it to its end, and the checker sends
\* notifications only for rows of that snapshot (so only the cycle in flight at
\* the removal may still notify the symbol)
C20_NoAlertAfterRemoval ==
    [][/\ (cmds' = cmds + 1 /\ outbox'.kind = "removed")
            => outbox'.symbol \notin SymbolsOf(store')
       /\ \A s \in SymbolsOf(store') \ SymbolsOf(store) :
             /\ cmds' = cmds + 1
             /\ outbox'.kind \in {"price_test", "price_warning"}
             /\ outbox'.symbol = s
       /\ (pc = "top" /\ pc' = "loop")
            => SymbolsOf(reminders') \subseteq SymbolsOf(store)
       /\ (pc \in {"loop", "update"} /\ pc' \in {"loop", "update"})
            => reminders' = reminders
       /\ (outbox' # outbox /\ outbox'.kind \in AlertKinds)
            => /\ Delivered
               /\ outbox'.symbol = reminders[idx].symbol]_vars

\* C20 witness: a removal has been answered, the symbol has no row, and a
\* second or later cycle is running on a snapshot without that symbol
C20_Witness ==
    /\ pc = "loop"
    /\ now >= SLEEP_SECONDS
    /\ outbox.kind = "removed"
    /\ outbox.symbol \notin SymbolsOf(store)
    /\ outbox.symbol \notin SymbolsOf(reminders)

====
